---- MODULE Spec2Model ----
(***************************************************************************)
(* Model of package ipproto (protocols.go): the lazily loaded, overridable *)
(* registry of IP protocol numbers.  Strings are sequences of one-character*)
(* strings, so that trimming, case folding and whitespace normalisation    *)
(* are computed and not assumed.                                           *)
(***************************************************************************)
EXTENDS Integers, Sequences, FiniteSets, TLC

(* ------------------------------ bounds -------------------------------- *)
NumProcs == 2
MaxCalls == 2
SeqCalls == 2
RepeatCalls == 5
MaxRows == 2
MaxArg == 3

(* ------------------------- strings (Go: strings) ---------------------- *)
(* A character is a rune; a rune above U+00FF, and the grave accent       *)
(* U+0060, is written by its code point, as in "U+0178".  The alphabet of *)
(* the model is the printable runes up to U+00FF, the white space of      *)
(* Unicode, and the runes above U+00FF named in the tables below; it is   *)
(* closed under unicode.ToUpper and unicode.ToLower.  The i-th of         *)
(* LowerLetters and the i-th of UpperLetters are each other's case.       *)
LowerLetters == <<"a","b","c","d","e","f","g","h","i","j","k","l","m","n",
                  "o","p","q","r","s","t","u","v","w","x","y","z","à","á",
                  "â","ã","ä","å","æ","ç","è","é","ê","ë","ì","í","î","ï",
                  "ð","ñ","ò","ó","ô","õ","ö","ø","ù","ú","û","ü","ý","þ",
                  "ÿ","U+0101","U+0153","U+03BC">>
UpperLetters == <<"A","B","C","D","E","F","G","H","I","J","K","L","M","N",
                  "O","P","Q","R","S","T","U","V","W","X","Y","Z","À","Á",
                  "Â","Ã","Ä","Å","Æ","Ç","È","É","Ê","Ë","Ì","Í","Î","Ï",
                  "Ð","Ñ","Ò","Ó","Ô","Õ","Ö","Ø","Ù","Ú","Û","Ü","Ý","Þ",
                  "U+0178","U+0100","U+0152","U+039C">>
Digits == <<"0","1","2","3","4","5","6","7","8","9">>

IndexOf(c, tab) == IF \E i \in DOMAIN tab : tab[i] = c
                   THEN CHOOSE i \in DOMAIN tab : tab[i] = c
                   ELSE 0

(* unicode.IsSpace: tab, line feed, form feed, carriage return, space,   *)
(* then U+000B, U+0085, U+00A0, U+1680, U+2000..U+200A, U+2028, U+2029,   *)
(* U+202F, U+205F and U+3000.                                             *)
SpaceRunes == {"\t", "\n", "\f", "\r", " ", "", "", " ", "U+1680",
               "U+2000", "U+2001", "U+2002", "U+2003", "U+2004",
               "U+2005", "U+2006", "U+2007", "U+2008", "U+2009",
               "U+200A", "U+2028", "U+2029", "U+202F", "U+205F",
               "U+3000"}
IsSpace(c) == c \in SpaceRunes
IsDigit(c) == IndexOf(c, Digits) # 0

(* The runes with a case in one direction only: the micro sign, the      *)
(* dotless i and the long s have an upper case and are the lower case of  *)
(* no rune; the dotted capital I, the capital sharp s, the Kelvin sign    *)
(* and the Angstrom sign have a lower case and are the upper case of no   *)
(* rune.                                                                  *)
UpperOnly == << <<"µ", "U+039C">>, <<"U+0131", "I">>, <<"U+017F", "S">> >>
LowerOnly == << <<"U+0130", "i">>, <<"U+1E9E", "ß">>, <<"U+212A", "k">>,
                <<"U+212B", "å">> >>
PairOf(c, tab) == IF \E i \in DOMAIN tab : tab[i][1] = c
                  THEN (CHOOSE i \in DOMAIN tab : tab[i][1] = c)
                  ELSE 0

(* The runes of the alphabet that have no case at all.                    *)
Symbols == {"!", "\"", "#", "$", "%", "&", "'", "(", ")", "*", "+", ",",
            "-", ".", "/", ":", ";", "<", "=", ">", "?", "@", "[", "\\",
            "]", "^", "_", "U+0060", "{", "|", "}", "~", "¡", "¢", "£", "¤",
            "¥", "¦", "§", "¨", "©", "ª", "«", "¬", "­", "®", "¯", "°",
            "±", "²", "³", "´", "¶", "·", "¸", "¹", "º", "»", "¼", "½",
            "¾", "¿", "×", "÷", "ß"}
LowerSet == { LowerLetters[i] : i \in DOMAIN LowerLetters }
UpperSet == { UpperLetters[i] : i \in DOMAIN UpperLetters }
Alphabet == LowerSet \cup UpperSet
              \cup { UpperOnly[i][1] : i \in DOMAIN UpperOnly }
              \cup { LowerOnly[i][1] : i \in DOMAIN LowerOnly }
              \cup { Digits[i] : i \in DOMAIN Digits } \cup SpaceRunes \cup Symbols

(* A rune outside the alphabet: the model gives it no case mapping.       *)
OutsideAlphabet(c) == CHOOSE r \in {} : TRUE

(* unicode.ToUpper and unicode.ToLower.                                   *)
ToUpperChar(c) == IF c \in SpaceRunes \/ c \in Symbols THEN c
                  ELSE IF c \in LowerSet THEN UpperLetters[IndexOf(c, LowerLetters)]
                  ELSE IF PairOf(c, UpperOnly) # 0
                  THEN UpperOnly[PairOf(c, UpperOnly)][2]
                  ELSE IF c \in Alphabet THEN c ELSE OutsideAlphabet(c)
ToLowerChar(c) == IF c \in SpaceRunes \/ c \in Symbols THEN c
                  ELSE IF c \in UpperSet THEN LowerLetters[IndexOf(c, UpperLetters)]
                  ELSE IF PairOf(c, LowerOnly) # 0
                  THEN LowerOnly[PairOf(c, LowerOnly)][2]
                  ELSE IF c \in Alphabet THEN c ELSE OutsideAlphabet(c)

ToUpper(s) == [i \in DOMAIN s |-> ToUpperChar(s[i])]
ToLower(s) == [i \in DOMAIN s |-> ToLowerChar(s[i])]

RECURSIVE TrimLeft(_)
TrimLeft(s) == IF s # <<>> /\ IsSpace(Head(s)) THEN TrimLeft(Tail(s)) ELSE s

RECURSIVE TrimRight(_)
TrimRight(s) == IF s # <<>> /\ IsSpace(s[Len(s)])
                THEN TrimRight(SubSeq(s, 1, Len(s) - 1)) ELSE s

TrimSpace(s) == TrimRight(TrimLeft(s))

(* strings.Fields: the maximal runs of non-space characters, in order.    *)
RECURSIVE FieldsFrom(_, _, _)
FieldsFrom(s, cur, acc) ==
    IF s = <<>>
    THEN IF cur = <<>> THEN acc ELSE Append(acc, cur)
    ELSE IF IsSpace(Head(s))
         THEN FieldsFrom(Tail(s), <<>>, IF cur = <<>> THEN acc ELSE Append(acc, cur))
         ELSE FieldsFrom(Tail(s), Append(cur, Head(s)), acc)

Fields(s) == FieldsFrom(s, <<>>, <<>>)

(* strings.Join(fields, sep).                                             *)
RECURSIVE Join(_, _)
Join(fs, sep) == IF fs = <<>> THEN <<>>
                 ELSE IF Len(fs) = 1 THEN fs[1]
                 ELSE fs[1] \o sep \o Join(Tail(fs), sep)

Contains(s, c) == \E i \in DOMAIN s : s[i] = c

(* strings.SplitN(s, sep, 2) for a one-character sep that occurs in s.    *)
FirstIndex(s, c) == CHOOSE i \in DOMAIN s : s[i] = c /\ \A j \in 1..(i - 1) : s[j] # c
SplitN2(s, c) == IF Contains(s, c)
                 THEN << SubSeq(s, 1, FirstIndex(s, c) - 1),
                         SubSeq(s, FirstIndex(s, c) + 1, Len(s)) >>
                 ELSE << s >>

(* strconv.Atoi: an optional sign, then one or more decimal digits; a     *)
(* value outside the 64-bit int is a range error.                         *)
MaxInt64Digits == <<"9","2","2","3","3","7","2","0","3","6","8","5","4","7","7","5",
                    "8","0","7">>
MinInt64Digits == <<"9","2","2","3","3","7","2","0","3","6","8","5","4","7","7","5",
                    "8","0","8">>

RECURSIVE StripZeros(_)
StripZeros(s) == IF Len(s) > 1 /\ Head(s) = "0" THEN StripZeros(Tail(s)) ELSE s

(* a <= b, for two digit strings without leading zeros.                   *)
DigitsLeq(a, b) ==
    \/ Len(a) < Len(b)
    \/ /\ Len(a) = Len(b)
       /\ \A i \in DOMAIN a :
            (\A j \in 1..(i - 1) : a[j] = b[j]) =>
              IndexOf(a[i], Digits) <= IndexOf(b[i], Digits)

RECURSIVE DigitsValue(_, _)
DigitsValue(s, n) == IF s = <<>> THEN n
                     ELSE DigitsValue(Tail(s), n * 10 + (IndexOf(Head(s), Digits) - 1))

Atoi(s) ==
    LET signed == s # <<>> /\ Head(s) \in {"+", "-"}
        body   == IF signed THEN Tail(s) ELSE s
        neg    == signed /\ Head(s) = "-"
    IN  IF body = <<>> \/ \E i \in DOMAIN body : ~IsDigit(body[i])
        THEN [ok |-> FALSE, val |-> 0]
        ELSE IF ~DigitsLeq(StripZeros(body),
                           IF neg THEN MinInt64Digits ELSE MaxInt64Digits)
        THEN [ok |-> FALSE, val |-> 0]
        ELSE [ok |-> TRUE,
              val |-> IF neg
                      THEN 0 - DigitsValue(body, 0) ELSE DigitsValue(body, 0)]

(* ------------------------- parseDecimalField -------------------------- *)
DecErr == [err |-> TRUE, start |-> 0, end |-> 0]

(* Variant: the two ends of a range are assigned the wrong way round.     *)
parseDecimalFieldEndFirst(s0) ==
    LET s == TrimSpace(s0)
    IN  IF s = <<>> THEN DecErr
        ELSE IF ~IsDigit(s[1]) THEN DecErr
        ELSE IF Contains(s, "-")
             THEN LET parts == SplitN2(s, "-")
                      a == Atoi(TrimSpace(parts[1]))
                      b == Atoi(TrimSpace(parts[2]))
                  IN  IF ~a.ok \/ ~b.ok THEN DecErr
                      ELSE IF b.val < a.val THEN DecErr
                      ELSE [err |-> FALSE, start |-> b.val, end |-> a.val]
             ELSE LET n == Atoi(s)
                  IN  IF ~n.ok THEN DecErr
                      ELSE [err |-> FALSE, start |-> n.val, end |-> n.val]

(* Variant: the test end < start is left out.                             *)
parseDecimalFieldAnyOrder(s0) ==
    LET s == TrimSpace(s0)
    IN  IF s = <<>> THEN DecErr
        ELSE IF ~IsDigit(s[1]) THEN DecErr
        ELSE IF Contains(s, "-")
             THEN LET parts == SplitN2(s, "-")
                      a == Atoi(TrimSpace(parts[1]))
                      b == Atoi(TrimSpace(parts[2]))
                  IN  IF ~a.ok \/ ~b.ok THEN DecErr
                      ELSE [err |-> FALSE, start |-> a.val, end |-> b.val]
             ELSE LET n == Atoi(s)
                  IN  IF ~n.ok THEN DecErr
                      ELSE [err |-> FALSE, start |-> n.val, end |-> n.val]

parseDecimalField(s0) ==
    LET s == TrimSpace(s0)
    IN  IF s = <<>> THEN DecErr
        ELSE IF ~IsDigit(s[1]) THEN DecErr
        ELSE IF Contains(s, "-")
             THEN LET parts == SplitN2(s, "-")
                      a == Atoi(TrimSpace(parts[1]))
                      b == Atoi(TrimSpace(parts[2]))
                  IN  IF ~a.ok \/ ~b.ok THEN DecErr
                      ELSE IF b.val < a.val THEN DecErr
                      ELSE [err |-> FALSE, start |-> a.val, end |-> b.val]
             ELSE LET n == Atoi(s)
                  IN  IF ~n.ok THEN DecErr
                      ELSE [err |-> FALSE, start |-> n.val, end |-> n.val]

normalizeProtoName(s) == Join(Fields(ToLower(TrimSpace(s))), <<" ">>)

(* ------------------- the CSV source (encoding/csv) -------------------- *)
(* A source is a sequence of lines.  A line is a record row, a comment    *)
(* line (first character '#'), a blank line, or a line whose quoting      *)
(* the reader rejects.                                                    *)
Row(f) == [kind |-> "row", fields |-> f]
CommentLine == [kind |-> "comment", fields |-> <<>>]
BlankLine == [kind |-> "blank", fields |-> <<>>]
BadQuoteLine == [kind |-> "badquote", fields |-> <<>>]

RECURSIVE RecordsOf(_)
RecordsOf(src) == IF src = <<>> THEN <<>>
                  ELSE IF Head(src).kind = "row"
                       THEN <<Head(src).fields>> \o RecordsOf(Tail(src))
                       ELSE RecordsOf(Tail(src))

(* cr.ReadAll() with Comment = '#' and FieldsPerRecord = -1.              *)
ReadAll(src) == IF \E i \in DOMAIN src : src[i].kind = "badquote"
                THEN [err |-> TRUE, records |-> <<>>]
                ELSE [err |-> FALSE, records |-> RecordsOf(src)]

(* ----------------------------- errors --------------------------------- *)
Nil == "nil"
ErrEmbeddedEmpty == "ipproto: embedded CSV is empty"
ErrReadCSV == "ipproto: read protocols csv"
ErrCSVEmpty == "ipproto: protocols csv is empty"
ErrOpenFile == "ipproto: open protocols csv"

(* ----------------------- Entry and the indexes ------------------------ *)
Entry(start, end, keyword, proto, ipv6ext, ref) ==
    [DecimalStart |-> start, DecimalEnd |-> end, Keyword |-> keyword,
     Protocol |-> proto, IPv6ExtHdr |-> ipv6ext, Reference |-> ref]

EmptyMap == <<>>
MapPut(m, k, v) == [x \in (DOMAIN m) \cup {k} |-> IF x = k THEN v ELSE m[x]]
(* Variant: a later row takes a key an earlier row holds.                 *)
MapPutOverwrite(m, k, v) == MapPut(m, k, v)
MapPutIfAbsent(m, k, v) == IF k \in DOMAIN m THEN m ELSE MapPut(m, k, v)

(* Variants: only the first number of a range is bound; a number an      *)
(* earlier row holds is left to that row.                                 *)
FillRangeStartOnly(m, start, end, v) == MapPut(m, start, v)
FillRangeIfAbsent(m, start, end, v) ==
    [x \in (DOMAIN m) \cup (start..end) |-> IF x \in DOMAIN m THEN m[x] ELSE v]

(* Variant: the loop runs one number past the end of the range.           *)
FillRangeOnePast(m, start, end, v) ==
    [x \in (DOMAIN m) \cup (start..(end + 1)) |-> IF x \in start..(end + 1) THEN v ELSE m[x]]

(* for n := start; n <= end; n++ { byNumber[n] = entryPtr }               *)
FillRange(m, start, end, v) ==
    [x \in (DOMAIN m) \cup (start..end) |-> IF x \in start..end THEN v ELSE m[x]]

(* for len(row) < 5 { row = append(row, "") }                             *)
RECURSIVE PadRow(_)
PadRow(row) == IF Len(row) < 5 THEN PadRow(Append(row, <<>>)) ELSE row

EmptySnapshot == [entries |-> <<>>, byNumber |-> EmptyMap,
                  byKeyword |-> EmptyMap, byProtocolName |-> EmptyMap]

(* One iteration of the loop over records[1:]: the snapshot after the row.*)
(* A *Entry is modelled by the index of the entry in entries.             *)
IndexRow(s, row0) ==
    IF Len(row0) = 0 THEN s
    ELSE
    LET row      == PadRow(row0)
        decField == TrimSpace(row[1])
        keyword  == TrimSpace(row[2])
        proto    == TrimSpace(row[3])
        ipv6ext  == TrimSpace(row[4])
        ref      == TrimSpace(row[5])
        d        == parseDecimalField(decField)
        idx      == Len(s.entries) + 1
    IN  IF decField = <<>> THEN s
        ELSE IF d.err THEN s
        ELSE [entries |-> Append(s.entries,
                                 Entry(d.start, d.end, keyword, proto, ipv6ext, ref)),
              byNumber |-> FillRange(s.byNumber, d.start, d.end, idx),
              byKeyword |-> IF keyword # <<>>
                            THEN MapPutIfAbsent(s.byKeyword, ToUpper(keyword), idx)
                            ELSE s.byKeyword,
              byProtocolName |-> IF proto # <<>>
                                 THEN MapPutIfAbsent(s.byProtocolName,
                                                     normalizeProtoName(proto), idx)
                                 ELSE s.byProtocolName]

(* startIdx := 1: the header, records[0], is skipped.                     *)
StartIdx == 2

RECURSIVE IndexRows(_, _, _)
IndexRows(s, records, i) == IF i > Len(records) THEN s
                            ELSE IndexRows(IndexRow(s, records[i]), records, i + 1)

(* Variant: a source with no record after the header is an error too.    *)
LoadErrorNoDataRows(src) == IF ReadAll(src).err THEN ErrReadCSV
                            ELSE IF Len(ReadAll(src).records) <= 1 THEN ErrCSVEmpty
                            ELSE Nil

(* The error loadFromReaderLocked returns for a source.                   *)
LoadError(src) == IF ReadAll(src).err THEN ErrReadCSV
                  ELSE IF Len(ReadAll(src).records) = 0 THEN ErrCSVEmpty
                  ELSE Nil

(* Variant: entries and the maps are replaced before the source is read.  *)
SnapshotAfterReadResetFirst(cur, src) == [nil |-> FALSE, snap |-> EmptySnapshot]

(* loadFromReaderLocked up to the loop: an error returns with the state   *)
(* cur (the maps nil or not, the snapshot) as found; otherwise entries    *)
(* and the three maps are replaced by empty ones.                         *)
SnapshotAfterRead(cur, src) ==
    IF LoadError(src) # Nil THEN cur ELSE [nil |-> FALSE, snap |-> EmptySnapshot]

(* The snapshot a complete, successful loadFromReaderLocked leaves.       *)
ParseAll(src) == IndexRows(EmptySnapshot, ReadAll(src).records, StartIdx)

(* ------------------------------ queries ------------------------------- *)
NoEntry == Entry(0, 0, <<>>, <<>>, <<>>, <<>>)
Result(found, num, str, idx, entry) ==
    [found |-> found, num |-> num, str |-> str, idx |-> idx, entry |-> entry]
NotFound == Result(FALSE, 0, <<>>, 0, NoEntry)

(* LookupByNumber, under the read lock: the byNumber hit for n, as the    *)
(* pointer (the index in entries) and the Entry it points to.             *)
LookupByNumberIn(isNil, s, n) ==
    IF isNil THEN NotFound
    ELSE IF n \in DOMAIN s.byNumber
         THEN Result(TRUE, 0, <<>>, s.byNumber[n], s.entries[s.byNumber[n]])
         ELSE NotFound

(* Variant: the long-name index is tried before the keyword index.        *)
LookupDecimalLongNameFirst(isNil, s, name0) ==
    LET name == TrimSpace(name0)
    IN  IF isNil THEN NotFound
        ELSE IF name = <<>> THEN NotFound
        ELSE IF normalizeProtoName(name) \in DOMAIN s.byProtocolName
             THEN Result(TRUE,
                         s.entries[s.byProtocolName[normalizeProtoName(name)]].DecimalStart,
                         <<>>, 0, NoEntry)
        ELSE IF ToUpper(name) \in DOMAIN s.byKeyword
             THEN Result(TRUE, s.entries[s.byKeyword[ToUpper(name)]].DecimalStart,
                         <<>>, 0, NoEntry)
        ELSE NotFound

(* Variant: the name is not trimmed before the keyword index is tried.    *)
LookupDecimalNoTrim(isNil, s, name) ==
    IF isNil THEN NotFound
    ELSE IF TrimSpace(name) = <<>> THEN NotFound
    ELSE IF ToUpper(name) \in DOMAIN s.byKeyword
         THEN Result(TRUE, s.entries[s.byKeyword[ToUpper(name)]].DecimalStart,
                     <<>>, 0, NoEntry)
    ELSE IF normalizeProtoName(name) \in DOMAIN s.byProtocolName
         THEN Result(TRUE,
                     s.entries[s.byProtocolName[normalizeProtoName(name)]].DecimalStart,
                     <<>>, 0, NoEntry)
    ELSE NotFound

(* LookupDecimal, under the read lock.                                    *)
LookupDecimalIn(isNil, s, name0) ==
    LET name == TrimSpace(name0)
    IN  IF isNil THEN NotFound
        ELSE IF name = <<>> THEN NotFound
        ELSE IF ToUpper(name) \in DOMAIN s.byKeyword
             THEN Result(TRUE, s.entries[s.byKeyword[ToUpper(name)]].DecimalStart,
                         <<>>, 0, NoEntry)
        ELSE IF normalizeProtoName(name) \in DOMAIN s.byProtocolName
             THEN Result(TRUE,
                         s.entries[s.byProtocolName[normalizeProtoName(name)]].DecimalStart,
                         <<>>, 0, NoEntry)
        ELSE NotFound

(* Variant: an Entry with an empty keyword is reported as found.          *)
KeywordOfAnyEntry(r) == IF ~r.found \/ r.idx = 0 THEN NotFound
                        ELSE Result(TRUE, 0, r.entry.Keyword, 0, NoEntry)

(* LookupKeyword / LookupProtocolName, from what LookupByNumber returned. *)
KeywordOf(r) == IF ~r.found \/ r.idx = 0 \/ r.entry.Keyword = <<>> THEN NotFound
                ELSE Result(TRUE, 0, r.entry.Keyword, 0, NoEntry)
ProtocolNameOf(r) == IF ~r.found \/ r.idx = 0 \/ r.entry.Protocol = <<>> THEN NotFound
                     ELSE Result(TRUE, 0, r.entry.Protocol, 0, NoEntry)

(* ------------------------------ the data ------------------------------ *)
Header == Row(<< <<"D","e","c">>, <<"K","e","y">>, <<"P","r","o","t","o">> >>)

DefaultCSV == << Header, CommentLine,
                 Row(<< <<"1">>, <<"T","C","P">>, <<"T","x"," ","C","t","l">>,
                        <<>>, <<"[","R","]">> >>),
                 Row(<< <<"2","-","3">>, <<>>, <<"U","n">> >>) >>
CustomCSV == << Header, Row(<< <<"1">>, <<"X","N","S">>, <<"X","e","r","o","x">> >>) >>
HeaderOnlyCSV == << Header >>
EmptyCSV == <<>>
CommentOnlyCSV == << CommentLine, BlankLine >>
MalformedCSV == << Header, BadQuoteLine >>
RangesCSV == << Header,
                Row(<< <<"2","-","1">>, <<"B","A","D">>, <<"B","a","d">> >>),
                Row(<< <<"0","-","3">>, <<"U","D","P">> >>),
                Row(<< <<" ","1">>, <<"t","c","p">>, <<"T","x"," ","C","t","l">> >>) >>

(* The rows the bounded datasets are built from: plain, padded with       *)
(* whitespace (a no-break space, U+00A0, in the first), ranges that       *)
(* overlap, names that collide, a letter outside ASCII, bad identifiers.  *)
RowPool == {
    << <<" ","1">>, <<"t","c","p">>, <<"T","x"," "," ","C","t","l">> >>,
    << <<"1","-","2">>, <<>>, <<"Ü","n">> >>,
    << <<"2">>, <<"T","C","P">>, <<"t","c","p">> >>,
    << <<"0","-","3">>, <<"U","D","P">>, <<"t","x"," ","c","t","l">> >>,
    << <<"3">> >>,
    << <<"R","e","s">>, <<"R","S","V">>, <<"R","e","s">> >>,
    << <<"2","-","1">>, <<"B","A","D">>, <<"B","a","d">> >>,
    << <<>>, <<"N","O","N">>, <<"N","o","n">> >>,
    << <<"3">>, <<"T","x"," "," ","C","t","l">>, <<"X">> >> }

RECURSIVE RowSeqs(_)
RowSeqs(n) == IF n = 0 THEN { <<>> }
              ELSE RowSeqs(n - 1) \cup
                   { Append(s, Row(r)) : s \in { q \in RowSeqs(n - 1) : Len(q) = n - 1 },
                                         r \in RowPool }

PoolSources == { <<Header>> \o s : s \in RowSeqs(MaxRows) }

EmbeddedChoices == { DefaultCSV, EmptyCSV, MalformedCSV }
OverrideSources == { "custom", "headerOnly", "commentOnly", "empty", "malformed",
                     "ranges" }
RaceSources == { "custom", "malformed" }

(* ParseAll of each source a reader above yields, computed once.          *)
KnownSources == EmbeddedChoices \cup { CustomCSV, HeaderOnlyCSV, CommentOnlyCSV,
                                      RangesCSV }
ParsedSources == { << s, ParseAll(s) >> : s \in KnownSources }
ParsedOf(src) == IF src \in KnownSources
                 THEN (CHOOSE pr \in ParsedSources : pr[1] = src)[2]
                 ELSE ParseAll(src)

(* The paths LoadFromFile is given, and the file os.Open finds at each:   *)
(* the reader of its bytes, or none when the open fails.                  *)
FilePaths == { "missing.csv", "custom.csv", "malformed.csv" }

NumberArgs == 0..MaxArg
NameArgs == { <<"T","C","P">>, <<"t","c","p">>, <<"\n","T","c","p"," ">>,
              <<"T","x"," "," ","C","t","l">>, <<"t","x"," ","c","t","l">>,
              <<"ü","N">>, <<"U","D","P">>, <<" ">> }

RaceOps == { "LookupDecimal", "LookupKeyword" }
RaceNumberArgs == { 1 }
RaceNameArgs == { <<"T","C","P">> }

QueryOps == { "LookupByNumber", "LookupDecimal", "LookupKeyword", "LookupProtocolName" }

Procs == 1..NumProcs

(* ------------------------------ the state ----------------------------- *)
VARIABLES
    embeddedCSV,      \* the bytes of protocol-numbers.csv built into the package
    entries, byNumber, byKeyword, byProtocolName,
    mapsNil,          \* the three maps are still nil (never made)
    onceDone,         \* loadOnce.done
    onceState,        \* loadOnce.m.state: the locked, woken and starving bits
                      \* and, above them, the count of waiters
    onceSema,         \* loadOnce.m.sema: wake-ups released and not yet taken
    starving, delta,  \* per process, the locals of lockSlow
    loadErr,
    muWriter,         \* the process holding mu.Lock, or 0
    muReaders,        \* the processes holding mu.RLock
    crashed,          \* the runtime ended the program (fatal error)
    pc, call,
    lsrc,             \* per process, the reader its load parses
    rowIdx, ret, res, resetLeft,
    nCalls,           \* history: calls started
    initRuns,         \* history: times the function given to loadOnce.Do ran
    ovStarted,        \* history: some LoadFromReader call has started
    lastOv,           \* history: the last LoadFromReader call that returned
    qAfter,           \* history: per query, the override state it started in
                      \* and what its caller's previous call of it returned
    snapAtLock,       \* history: per loader, the snapshot when it took mu
    lastParsed        \* history: the source of the last completed parse

(* The readers a load is given, by name, and the bytes each yields.       *)
NoReader == "none"
BytesOf(r) == IF r = "embedded" THEN embeddedCSV
              ELSE IF r = "custom" THEN CustomCSV
              ELSE IF r = "headerOnly" THEN HeaderOnlyCSV
              ELSE IF r = "commentOnly" THEN CommentOnlyCSV
              ELSE IF r = "empty" THEN EmptyCSV
              ELSE IF r = "malformed" THEN MalformedCSV
              ELSE IF r = "ranges" THEN RangesCSV
              ELSE <<>>

FileOf(path) == IF path = "custom.csv" THEN "custom"
                ELSE IF path = "malformed.csv" THEN "malformed"
                ELSE NoReader

snapVars == << entries, byNumber, byKeyword, byProtocolName, mapsNil >>
onceVars == << onceDone, onceState, onceSema >>
muVars == << muWriter, muReaders >>
locVars == << call, lsrc, rowIdx, ret, res, resetLeft, starving, delta >>
histVars == << nCalls, initRuns, ovStarted, lastOv, qAfter, snapAtLock, lastParsed >>
vars == << embeddedCSV, snapVars, onceVars, loadErr, muVars, crashed, pc, locVars,
           histVars >>

Snapshot == [entries |-> entries, byNumber |-> byNumber,
             byKeyword |-> byKeyword, byProtocolName |-> byProtocolName]

NoCall == [op |-> "none", num |-> 0, name |-> <<>>]
NoHeld == [nil |-> TRUE, snap |-> EmptySnapshot]
NoOv == [some |-> FALSE, src |-> NoReader, err |-> Nil, left |-> NoHeld]
NoPrev == [some |-> FALSE, res |-> NotFound]
NoAfter == [clean |-> FALSE, ov |-> NoOv, prev |-> NoPrev]
NoParse == [some |-> FALSE, src |-> NoReader]

(* The call of p is a LoadFromReader, made by the caller or by           *)
(* LoadFromFile once its file is open.                                    *)
IsLoader(p) == \/ call[p].op = "LoadFromReader"
               \/ call[p].op = "LoadFromFile" /\ lsrc[p] \notin FilePaths
IsQuery(p) == call[p].op \in QueryOps
InFlight(p) == pc[p] \notin { "idle", "done" }
OverrideInFlight == \E q \in Procs : IsLoader(q) /\ InFlight(q)

InitCommon ==
    /\ entries = <<>> /\ byNumber = EmptyMap /\ byKeyword = EmptyMap
    /\ byProtocolName = EmptyMap /\ mapsNil = TRUE
    /\ onceDone = FALSE /\ onceState = 0 /\ onceSema = 0
    /\ starving = [p \in Procs |-> FALSE]
    /\ delta = [p \in Procs |-> 0]
    /\ loadErr = Nil
    /\ muWriter = 0 /\ muReaders = {}
    /\ crashed = FALSE
    /\ pc = [p \in Procs |-> "idle"]
    /\ call = [p \in Procs |-> NoCall]
    /\ lsrc = [p \in Procs |-> NoReader]
    /\ rowIdx = [p \in Procs |-> 0]
    /\ ret = [p \in Procs |-> Nil]
    /\ res = [p \in Procs |-> NotFound]
    /\ resetLeft = [p \in Procs |-> {}]
    /\ nCalls = 0 /\ initRuns = 0 /\ ovStarted = FALSE /\ lastOv = NoOv
    /\ qAfter = [p \in Procs |-> NoAfter]
    /\ snapAtLock = [p \in Procs |-> NoHeld]
    /\ lastParsed = NoParse

Init == embeddedCSV \in EmbeddedChoices /\ InitCommon

At(p, l) == ~crashed /\ pc[p] = l
(* The process has no call in progress: it can make its next call.        *)
Free(p) == ~crashed /\ pc[p] \in { "idle", "done" }
Goto(p, l) == pc' = [pc EXCEPT ![p] = l]

(* Variant: mu.Lock() does not wait for the readers.                      *)
CanLockNoReaders == muWriter = 0

(* mu.Lock() and mu.RLock() can be taken.                                 *)
CanLock == muWriter = 0 /\ muReaders = {}
CanRLock == muWriter = 0

(* Variants: doSlow does not read done again; done is stored only when    *)
(* the function left no error.                                            *)
OnceMustRunAlways == TRUE
OnceStoreOnSuccess == loadErr = Nil

(* doSlow: if o.done.Load() == 0, the function runs.                      *)
OnceMustRun == ~onceDone

(* doSlow: defer o.done.Store(1), whatever the function did.              *)
OnceStoreValue == TRUE

(* ------------------------- a query: the call -------------------------- *)
(* History: the last call of p was a query and has returned, no override  *)
(* in flight at its start and none started since.                         *)
ReturnedClean(p) == pc[p] = "done" /\ IsQuery(p) /\ qAfter[p].clean

StartQuery(p, ops, numbers, names, limit) ==
    /\ Free(p) /\ nCalls < limit
    /\ \E o \in ops :
          IF o = "LookupDecimal"
          THEN \E nm \in names :
                 call' = [call EXCEPT ![p] = [op |-> o, num |-> 0, name |-> nm]]
          ELSE \E n \in numbers :
                 call' = [call EXCEPT ![p] = [op |-> o, num |-> n, name |-> <<>>]]
    /\ qAfter' = [qAfter EXCEPT ![p] =
                    IF OverrideInFlight THEN NoAfter
                    ELSE [clean |-> TRUE, ov |-> lastOv,
                          prev |-> IF ReturnedClean(p) /\ call'[p] = call[p]
                                   THEN [some |-> TRUE, res |-> res[p]]
                                   ELSE NoPrev]]
    /\ nCalls' = nCalls + 1
    /\ lsrc' = [lsrc EXCEPT ![p] = NoReader]
    /\ ret' = [ret EXCEPT ![p] = Nil]
    /\ res' = [res EXCEPT ![p] = NotFound]
    /\ snapAtLock' = [snapAtLock EXCEPT ![p] = NoHeld]
    /\ Goto(p, "onceDo")
    /\ UNCHANGED << embeddedCSV, snapVars, onceVars, loadErr, muVars, crashed,
                    rowIdx, resetLeft, initRuns, ovStarted, lastOv, lastParsed,
                    starving, delta >>

(* ensureLoaded: loadOnce.Do(f), the fast path: done is read.             *)
OnceDo(p) ==
    /\ At(p, "onceDo")
    /\ Goto(p, IF onceDone THEN "ensureRet" ELSE "onceLock")
    /\ UNCHANGED << embeddedCSV, snapVars, onceVars, loadErr, muVars, crashed,
                    locVars, histVars >>

(* sync.Mutex: the bits of m.state, and the waiters counted above them.  *)
mutexLocked == 1
mutexWoken == 2
mutexStarving == 4
mutexWaiter == 8
IsLocked(s) == s % 2 = 1
IsWoken(s) == (s \div mutexWoken) % 2 = 1
IsStarving(s) == (s \div mutexStarving) % 2 = 1
Waiters(s) == s \div mutexWaiter

(* lockSlow, one turn of its loop on the state old: the state it stores.  *)
(* An unlocked mutex not in starvation mode is taken; otherwise the       *)
(* caller counts itself as a waiter; a caller that has starved switches a *)
(* locked mutex to starvation mode; a caller that is awake clears the     *)
(* woken bit.                                                             *)
LockTurn(old, awoke, starv) ==
    old + (IF ~IsLocked(old) /\ ~IsStarving(old) THEN mutexLocked ELSE 0)
        + (IF IsLocked(old) \/ IsStarving(old) THEN mutexWaiter ELSE 0)
        + (IF starv /\ IsLocked(old) /\ ~IsStarving(old) THEN mutexStarving ELSE 0)
        - (IF awoke THEN mutexWoken ELSE 0)
Acquires(old) == ~IsLocked(old) /\ ~IsStarving(old)

(* lockSlow may spin on a locked mutex not in starvation mode; a spinner  *)
(* sets the woken bit, when it is clear and there are waiters, and is     *)
(* awake from then on.                                                    *)
CanSpin(old) == /\ IsLocked(old) /\ ~IsStarving(old)
                /\ ~IsWoken(old) /\ Waiters(old) # 0

(* lockSlow, a waiter handed the mutex in starvation mode: what it adds   *)
(* to the state (the lock taken, one waiter less, and starvation mode     *)
(* left when it has not starved or is the last waiter).                   *)
HandoffDelta(old, starv) ==
    mutexLocked - mutexWaiter
      - (IF ~starv \/ Waiters(old) = 1 THEN mutexStarving ELSE 0)

(* doSlow: o.m.Lock(), the fast path or the first turn of lockSlow.       *)
OnceLock(p) ==
    /\ At(p, "onceLock")
    /\ \E spin \in (IF CanSpin(onceState) THEN BOOLEAN ELSE { FALSE }) :
          IF spin
          THEN onceState' = onceState + mutexWoken /\ Goto(p, "onceRetry")
          ELSE /\ onceState' = LockTurn(onceState, FALSE, FALSE)
               /\ Goto(p, IF Acquires(onceState) THEN "doSlow" ELSE "onceSleep")
    /\ UNCHANGED << embeddedCSV, snapVars, onceDone, onceSema, loadErr, muVars,
                    crashed, locVars, histVars >>

(* runtime_SemacquireMutex: a waiter sleeps until an Unlock has released  *)
(* the semaphore, and takes the wake-up.                                  *)
OnceWake(p) ==
    /\ At(p, "onceSleep")
    /\ onceSema > 0
    /\ onceSema' = onceSema - 1
    /\ Goto(p, "onceWoke")
    /\ UNCHANGED << embeddedCSV, snapVars, onceDone, onceState, loadErr, muVars,
                    crashed, locVars, histVars >>

(* lockSlow after the wake-up, step by step.  Back from the semaphore,    *)
(* the waiter has starved if it waited more than 1ms, and reads the       *)
(* state: in starvation mode the mutex was handed to it (a state that is  *)
(* locked, woken or without waiters is a fatal error of the runtime), and *)
(* its next step adds delta to the state; otherwise it is awake and takes *)
(* a turn of the loop, where a state without the woken bit is a fatal     *)
(* error ("sync: inconsistent mutex state").                              *)
OnceRetry(p) ==
    /\ ~crashed /\ pc[p] \in { "onceWoke", "onceAdd", "onceRetry" }
    /\ CASE pc[p] = "onceWoke" ->
              \E late \in (IF starving[p] THEN { TRUE } ELSE BOOLEAN) :
                /\ starving' = [starving EXCEPT ![p] = late]
                /\ IF ~IsStarving(onceState)
                   THEN Goto(p, "onceRetry") /\ UNCHANGED << crashed, delta >>
                   ELSE IF \/ IsLocked(onceState) \/ IsWoken(onceState)
                           \/ Waiters(onceState) = 0
                   THEN crashed' = TRUE /\ UNCHANGED << pc, delta >>
                   ELSE /\ delta' = [delta EXCEPT ![p] = HandoffDelta(onceState, late)]
                        /\ Goto(p, "onceAdd")
                        /\ UNCHANGED crashed
                /\ UNCHANGED onceState
         [] pc[p] = "onceAdd" ->
              /\ onceState' = onceState + delta[p]
              /\ delta' = [delta EXCEPT ![p] = 0]
              /\ starving' = [starving EXCEPT ![p] = FALSE]
              /\ Goto(p, "doSlow")
              /\ UNCHANGED crashed
         [] pc[p] = "onceRetry" ->
              IF ~IsWoken(onceState)
              THEN crashed' = TRUE /\ UNCHANGED << onceState, starving, delta, pc >>
              ELSE /\ onceState' = LockTurn(onceState, TRUE, starving[p])
                   /\ IF Acquires(onceState)
                      THEN /\ Goto(p, "doSlow")
                           /\ starving' = [starving EXCEPT ![p] = FALSE]
                      ELSE Goto(p, "onceSleep") /\ UNCHANGED starving
                   /\ UNCHANGED << crashed, delta >>
    /\ UNCHANGED << embeddedCSV, snapVars, onceDone, onceSema, loadErr, muVars,
                    call, lsrc, rowIdx, ret, res, resetLeft, histVars >>

(* doSlow, with o.m held: done is read again.                             *)
OnceDoSlow(p) ==
    /\ At(p, "doSlow")
    /\ Goto(p, IF OnceMustRun THEN "initFunc" ELSE "onceUnlock")
    /\ UNCHANGED << embeddedCSV, snapVars, onceVars, loadErr, muVars, crashed,
                    locVars, histVars >>

(* The function given to loadOnce.Do: the embedded CSV is empty, or it is *)
(* handed to loadFromReader.                                              *)
InitFunc(p) ==
    /\ At(p, "initFunc")
    /\ initRuns' = initRuns + 1
    /\ IF Len(embeddedCSV) = 0
       THEN loadErr' = ErrEmbeddedEmpty /\ Goto(p, "onceStore") /\ UNCHANGED lsrc
       ELSE lsrc' = [lsrc EXCEPT ![p] = "embedded"] /\ Goto(p, "initLock")
            /\ UNCHANGED loadErr
    /\ UNCHANGED << embeddedCSV, snapVars, onceVars, muVars, crashed,
                    call, rowIdx, ret, res, resetLeft,
                    nCalls, ovStarted, lastOv, qAfter, snapAtLock, lastParsed,
                    starving, delta >>

(* loadFromReader: mu.Lock().                                             *)
InitLock(p) ==
    /\ At(p, "initLock")
    /\ CanLock
    /\ muWriter' = p
    /\ Goto(p, "parse")
    /\ UNCHANGED << embeddedCSV, snapVars, onceVars, loadErr, muReaders, crashed,
                    locVars, histVars >>

(* loadFromReaderLocked: the source is read; an error returns before any  *)
(* state is touched; otherwise entries and the three maps are replaced by *)
(* empty ones.                                                            *)
ReadCSV(p) ==
    /\ At(p, "parse")
    /\ LET after == SnapshotAfterRead([nil |-> mapsNil, snap |-> Snapshot], BytesOf(lsrc[p]))
       IN  /\ entries' = after.snap.entries
           /\ byNumber' = after.snap.byNumber
           /\ byKeyword' = after.snap.byKeyword
           /\ byProtocolName' = after.snap.byProtocolName
           /\ mapsNil' = after.nil
    /\ IF LoadError(BytesOf(lsrc[p])) # Nil
       THEN /\ ret' = [ret EXCEPT ![p] = LoadError(BytesOf(lsrc[p]))]
            /\ Goto(p, "muUnlock")
            /\ UNCHANGED rowIdx
       ELSE /\ rowIdx' = [rowIdx EXCEPT ![p] = StartIdx]
            /\ Goto(p, "rows")
            /\ UNCHANGED ret
    /\ UNCHANGED << embeddedCSV, onceVars, loadErr, muVars, crashed,
                    call, lsrc, res, resetLeft, histVars,
                    starving, delta >>

(* The loop over records[1:], one row a step; after the last, return nil. *)
IndexRowStep(p) ==
    /\ At(p, "rows")
    /\ LET records == ReadAll(BytesOf(lsrc[p])).records
       IN  IF rowIdx[p] > Len(records)
           THEN /\ ret' = [ret EXCEPT ![p] = Nil]
                /\ rowIdx' = [rowIdx EXCEPT ![p] = 0]
                /\ lastParsed' = [some |-> TRUE, src |-> lsrc[p]]
                /\ Goto(p, "muUnlock")
                /\ UNCHANGED << entries, byNumber, byKeyword, byProtocolName >>
           ELSE LET s == IndexRow(Snapshot, records[rowIdx[p]])
                IN  /\ entries' = s.entries
                    /\ byNumber' = s.byNumber
                    /\ byKeyword' = s.byKeyword
                    /\ byProtocolName' = s.byProtocolName
                    /\ rowIdx' = [rowIdx EXCEPT ![p] = rowIdx[p] + 1]
                    /\ UNCHANGED << ret, lastParsed, pc >>
    /\ UNCHANGED << embeddedCSV, mapsNil, onceVars, loadErr, muVars, crashed,
                    call, lsrc, res, resetLeft,
                    nCalls, initRuns, ovStarted, lastOv, qAfter, snapAtLock,
                    starving, delta >>

(* defer mu.Unlock(), of loadFromReader and of LoadFromReader.            *)
MuUnlock(p) ==
    /\ At(p, "muUnlock")
    /\ muWriter' = 0
    /\ snapAtLock' = [snapAtLock EXCEPT ![p] = NoHeld]
    /\ Goto(p, IF IsLoader(p) THEN "loadRet" ELSE "setErr")
    /\ UNCHANGED << embeddedCSV, snapVars, onceVars, loadErr, muReaders, crashed,
                    locVars, nCalls, initRuns, ovStarted, lastOv, qAfter, lastParsed >>

(* loadErr = loadFromReader(...): the assignment, after mu is released.   *)
SetLoadErr(p) ==
    /\ At(p, "setErr")
    /\ loadErr' = ret[p]
    /\ Goto(p, "onceStore")
    /\ UNCHANGED << embeddedCSV, snapVars, onceVars, muVars, crashed,
                    locVars, histVars >>

(* doSlow: defer o.done.Store(1).                                         *)
OnceStore(p) ==
    /\ At(p, "onceStore")
    /\ onceDone' = OnceStoreValue
    /\ Goto(p, "onceUnlock")
    /\ UNCHANGED << embeddedCSV, snapVars, onceState, onceSema, loadErr, muVars,
                    crashed, locVars, histVars >>

(* doSlow: defer o.m.Unlock(), its AddInt32.  The locked bit is taken off  *)
(* the state; new = 0 returns; a state that was not locked is a fatal     *)
(* error of the runtime ("sync: unlock of unlocked mutex").  unlockSlow    *)
(* then looks at new: in starvation mode the semaphore is to be released; *)
(* in normal mode it returns when new has no waiter or has the locked or  *)
(* woken bit, and otherwise goes on to wake a waiter.                     *)
OnceUnlock(p) ==
    /\ At(p, "onceUnlock")
    /\ LET new == onceState - mutexLocked
       IN  /\ onceState' = new
           /\ crashed' = (new # 0 /\ ~IsLocked(new + mutexLocked))
           /\ Goto(p, IF new = 0 \/ ~IsLocked(new + mutexLocked) THEN "ensureRet"
                      ELSE IF IsStarving(new) THEN "onceRelease"
                      ELSE IF Waiters(new) = 0 \/ IsLocked(new) \/ IsWoken(new)
                      THEN "ensureRet"
                      ELSE "unlockSlow")
    /\ UNCHANGED << embeddedCSV, snapVars, onceDone, onceSema, loadErr, muVars,
                    locVars, histVars >>

(* unlockSlow in normal mode, step by step.  Its CompareAndSwap takes one *)
(* waiter off the count and sets the woken bit; when the state is no      *)
(* longer the one it looked at, it reads the state again, and returns     *)
(* when that has no waiter or has the locked, woken or starving bit.      *)
(* Then, and in starvation mode, runtime_Semrelease releases the          *)
(* semaphore.                                                             *)
OnceUnlockSlow(p) ==
    /\ ~crashed /\ pc[p] \in { "unlockSlow", "onceRelease" }
    /\ IF pc[p] = "unlockSlow"
       THEN /\ IF \/ Waiters(onceState) = 0 \/ IsLocked(onceState)
                  \/ IsWoken(onceState) \/ IsStarving(onceState)
               THEN Goto(p, "ensureRet") /\ UNCHANGED onceState
               ELSE /\ onceState' = onceState - mutexWaiter + mutexWoken
                    /\ Goto(p, "onceRelease")
            /\ UNCHANGED onceSema
       ELSE /\ onceSema' = onceSema + 1
            /\ Goto(p, "ensureRet")
            /\ UNCHANGED onceState
    /\ UNCHANGED << embeddedCSV, snapVars, onceDone, loadErr, muVars, crashed,
                    locVars, histVars >>

(* return loadErr, and the caller's test of it: an error is not-found.    *)
EnsureRet(p) ==
    /\ At(p, "ensureRet")
    /\ IF loadErr # Nil
       THEN res' = [res EXCEPT ![p] = NotFound] /\ Goto(p, "done")
       ELSE Goto(p, "rLock") /\ UNCHANGED res
    /\ UNCHANGED << embeddedCSV, snapVars, onceVars, loadErr, muVars, crashed,
                    call, lsrc, rowIdx, ret, resetLeft, histVars,
                    starving, delta >>

(* mu.RLock().                                                            *)
RLock(p) ==
    /\ At(p, "rLock")
    /\ CanRLock
    /\ muReaders' = muReaders \cup {p}
    /\ Goto(p, "read")
    /\ UNCHANGED << embeddedCSV, snapVars, onceVars, loadErr, muWriter, crashed,
                    locVars, histVars >>

(* The body of LookupByNumber or LookupDecimal under the read lock.       *)
ReadIndex(p) ==
    /\ At(p, "read")
    /\ res' = [res EXCEPT ![p] =
                 IF call[p].op = "LookupDecimal"
                 THEN LookupDecimalIn(mapsNil, Snapshot, call[p].name)
                 ELSE LookupByNumberIn(mapsNil, Snapshot, call[p].num)]
    /\ Goto(p, "rUnlock")
    /\ UNCHANGED << embeddedCSV, snapVars, onceVars, loadErr, muVars, crashed,
                    call, lsrc, rowIdx, ret, resetLeft, histVars,
                    starving, delta >>

(* defer mu.RUnlock().                                                    *)
RUnlock(p) ==
    /\ At(p, "rUnlock")
    /\ muReaders' = muReaders \ {p}
    /\ Goto(p, "queryRet")
    /\ UNCHANGED << embeddedCSV, snapVars, onceVars, loadErr, muWriter, crashed,
                    locVars, histVars >>

(* The query returns; LookupKeyword and LookupProtocolName read the field *)
(* of the Entry that LookupByNumber returned.                             *)
QueryReturn(p) ==
    /\ At(p, "queryRet")
    /\ res' = [res EXCEPT ![p] =
                 IF call[p].op = "LookupKeyword" THEN KeywordOf(res[p])
                 ELSE IF call[p].op = "LookupProtocolName" THEN ProtocolNameOf(res[p])
                 ELSE res[p]]
    /\ Goto(p, "done")
    /\ UNCHANGED << embeddedCSV, snapVars, onceVars, loadErr, muVars, crashed,
                    call, lsrc, rowIdx, ret, resetLeft, histVars,
                    starving, delta >>

(* --------------------------- LoadFromReader --------------------------- *)
StartLoad(p, sources, limit) ==
    /\ Free(p) /\ nCalls < limit
    /\ \E s \in sources : lsrc' = [lsrc EXCEPT ![p] = s]
    /\ call' = [call EXCEPT ![p] = [op |-> "LoadFromReader", num |-> 0, name |-> <<>>]]
    /\ ovStarted' = TRUE
    /\ qAfter' = [q \in Procs |-> NoAfter]
    /\ nCalls' = nCalls + 1
    /\ ret' = [ret EXCEPT ![p] = Nil]
    /\ res' = [res EXCEPT ![p] = NotFound]
    /\ snapAtLock' = [snapAtLock EXCEPT ![p] = NoHeld]
    /\ Goto(p, "loadLock")
    /\ UNCHANGED << embeddedCSV, snapVars, onceVars, loadErr, muVars, crashed,
                    rowIdx, resetLeft, initRuns, lastOv, lastParsed,
                    starving, delta >>

(* LoadFromFile(path): the call.                                          *)
StartLoadFile(p, paths, limit) ==
    /\ Free(p) /\ nCalls < limit
    /\ \E f \in paths : lsrc' = [lsrc EXCEPT ![p] = f]
    /\ call' = [call EXCEPT ![p] = [op |-> "LoadFromFile", num |-> 0, name |-> <<>>]]
    /\ qAfter' = [qAfter EXCEPT ![p] = NoAfter]
    /\ nCalls' = nCalls + 1
    /\ ret' = [ret EXCEPT ![p] = Nil]
    /\ res' = [res EXCEPT ![p] = NotFound]
    /\ snapAtLock' = [snapAtLock EXCEPT ![p] = NoHeld]
    /\ Goto(p, "openFile")
    /\ UNCHANGED << embeddedCSV, snapVars, onceVars, loadErr, muVars, crashed,
                    rowIdx, resetLeft, initRuns, ovStarted, lastOv, lastParsed,
                    starving, delta >>

(* os.Open(path): an error is returned at once, nothing locked and        *)
(* nothing reset; otherwise LoadFromReader(f) is called.                  *)
OpenFile(p) ==
    /\ At(p, "openFile")
    /\ IF FileOf(lsrc[p]) = NoReader
       THEN /\ ret' = [ret EXCEPT ![p] = ErrOpenFile]
            /\ Goto(p, "done")
            /\ UNCHANGED << lsrc, ovStarted, qAfter >>
       ELSE /\ lsrc' = [lsrc EXCEPT ![p] = FileOf(lsrc[p])]
            /\ ovStarted' = TRUE
            /\ qAfter' = [q \in Procs |-> NoAfter]
            /\ Goto(p, "loadLock")
            /\ UNCHANGED ret
    /\ UNCHANGED << embeddedCSV, snapVars, onceVars, loadErr, muVars, crashed,
                    call, rowIdx, res, resetLeft,
                    nCalls, initRuns, lastOv, snapAtLock, lastParsed,
                    starving, delta >>

(* mu.Lock().                                                             *)
LoadLock(p) ==
    /\ At(p, "loadLock")
    /\ CanLock
    /\ muWriter' = p
    /\ snapAtLock' = [snapAtLock EXCEPT ![p] = [nil |-> mapsNil, snap |-> Snapshot]]
    /\ resetLeft' = [resetLeft EXCEPT ![p] = { "done", "m" }]
    /\ Goto(p, "resetOnce")
    /\ UNCHANGED << embeddedCSV, snapVars, onceVars, loadErr, muReaders, crashed,
                    call, lsrc, rowIdx, ret, res,
                    nCalls, initRuns, ovStarted, lastOv, qAfter, lastParsed,
                    starving, delta >>

(* loadOnce = sync.Once{}: a plain store over the guard, which queries    *)
(* read and lock without holding mu; its words are zeroed in some order.  *)
ResetOnce(p) ==
    /\ At(p, "resetOnce")
    /\ \E f \in resetLeft[p] :
          /\ IF f = "done"
             THEN onceDone' = FALSE /\ UNCHANGED << onceState, onceSema >>
             ELSE onceState' = 0 /\ onceSema' = 0 /\ UNCHANGED onceDone
          /\ resetLeft' = [resetLeft EXCEPT ![p] = resetLeft[p] \ {f}]
          /\ Goto(p, IF resetLeft[p] = {f} THEN "resetErr" ELSE "resetOnce")
    /\ UNCHANGED << embeddedCSV, snapVars, loadErr, muVars, crashed,
                    call, lsrc, rowIdx, ret, res, histVars,
                    starving, delta >>

(* loadErr = nil.                                                         *)
ResetErr(p) ==
    /\ At(p, "resetErr")
    /\ loadErr' = Nil
    /\ Goto(p, "parse")
    /\ UNCHANGED << embeddedCSV, snapVars, onceVars, muVars, crashed,
                    locVars, histVars >>

(* LoadFromReader returns the error of loadFromReaderLocked (and         *)
(* LoadFromFile, after the deferred f.Close(), what it returned).         *)
(* History: the call, and for a failed one the snapshot in place at its   *)
(* return.                                                                *)
LoadReturn(p) ==
    /\ At(p, "loadRet")
    /\ lastOv' = [some |-> TRUE, src |-> lsrc[p], err |-> ret[p],
                  left |-> IF ret[p] = Nil THEN NoHeld
                           ELSE [nil |-> mapsNil, snap |-> Snapshot]]
    /\ Goto(p, "done")
    /\ UNCHANGED << embeddedCSV, snapVars, onceVars, loadErr, muVars, crashed,
                    locVars, nCalls, initRuns, ovStarted, qAfter, snapAtLock,
                    lastParsed >>

(* ------------------------- the specifications ------------------------- *)
QueryStep(p) ==
    \/ OnceDo(p) \/ OnceLock(p) \/ OnceDoSlow(p) \/ InitFunc(p)
    \/ InitLock(p) \/ ReadCSV(p) \/ IndexRowStep(p) \/ MuUnlock(p) \/ SetLoadErr(p)
    \/ OnceStore(p) \/ OnceUnlock(p) \/ EnsureRet(p) \/ RLock(p) \/ ReadIndex(p)
    \/ RUnlock(p) \/ QueryReturn(p)

LoadStep(p) == LoadLock(p) \/ ResetOnce(p) \/ ResetErr(p) \/ LoadReturn(p)

(* Any number of callers, interleaved at every step.                      *)
Next == \E p \in Procs :
          \/ StartQuery(p, RaceOps, RaceNumberArgs, RaceNameArgs, MaxCalls)
          \/ StartLoad(p, RaceSources, MaxCalls)
          \/ QueryStep(p)
          \/ LoadStep(p)
          \/ OnceWake(p)
          \/ OnceRetry(p)
          \/ OnceUnlockSlow(p)
Spec == Init /\ [][Next]_vars

(* One caller of the queries, each call run to its return, over every     *)
(* dataset of at most MaxRows rows as the embedded CSV.                   *)
SeqInit == /\ embeddedCSV \in PoolSources \cup EmbeddedChoices \cup { CommentOnlyCSV }
           /\ InitCommon
SeqNext == \/ StartQuery(1, QueryOps, NumberArgs, NameArgs, SeqCalls)
           \/ QueryStep(1)
SeqSpec == SeqInit /\ [][SeqNext]_vars

(* One caller of LoadFromReader, of LoadFromFile and of the queries, each *)
(* call run to its return, over every kind of source.                     *)
LoadNext == \/ StartLoad(1, OverrideSources, SeqCalls)
            \/ StartLoadFile(1, FilePaths, SeqCalls)
            \/ OpenFile(1)
            \/ LoadStep(1)
            \/ StartQuery(1, QueryOps, RaceNumberArgs, RaceNameArgs, SeqCalls)
            \/ QueryStep(1)
LoadSpec == Init /\ [][LoadNext]_vars

(* Any number of callers repeating one query around overrides by one      *)
(* source, interleaved at every step.                                     *)
RepeatInit == embeddedCSV = DefaultCSV /\ InitCommon
RepeatNext == \E p \in Procs :
                \/ StartQuery(p, { "LookupDecimal" }, RaceNumberArgs, RaceNameArgs,
                              RepeatCalls)
                \/ StartLoad(p, { "custom" }, RepeatCalls)
                \/ QueryStep(p)
                \/ LoadStep(p)
                \/ OnceWake(p)
                \/ OnceRetry(p)
                \/ OnceUnlockSlow(p)
RepeatSpec == RepeatInit /\ [][RepeatNext]_vars

(* ============================== claims =============================== *)
QDone(p) == pc[p] = "done" /\ IsQuery(p)
LDone(p) == pc[p] = "done" /\ IsLoader(p)

(* What a call answers when it reads snapshot s (the maps nil or not).    *)
Answer(c, isNil, s) ==
    IF c.op = "LookupDecimal" THEN LookupDecimalIn(isNil, s, c.name)
    ELSE IF c.op = "LookupKeyword" THEN KeywordOf(LookupByNumberIn(isNil, s, c.num))
    ELSE IF c.op = "LookupProtocolName"
         THEN ProtocolNameOf(LookupByNumberIn(isNil, s, c.num))
    ELSE LookupByNumberIn(isNil, s, c.num)

(* The error lazy initialization ends with for the embedded CSV.          *)
DefaultErr == IF Len(embeddedCSV) = 0 THEN ErrEmbeddedEmpty ELSE LoadError(embeddedCSV)

InRange(e, n) == e.DecimalStart <= n /\ n <= e.DecimalEnd
Owners(n) == { i \in DOMAIN entries : InRange(entries[i], n) }
MinOf(S) == CHOOSE i \in S : \A j \in S : i <= j
MaxOf(S) == CHOOSE i \in S : \A j \in S : j <= i

(* A query that started after an override had returned, with no override  *)
(* in flight then and none started since.                                 *)
AfterOverride(p) == QDone(p) /\ qAfter[p].clean /\ qAfter[p].ov.some

(* C1: a query made after LoadFromReader(newData) returned success, with  *)
(* no later override, is answered from newData only.                      *)
C1_OverrideReplaces ==
    \A p \in Procs :
      (AfterOverride(p) /\ qAfter[p].ov.err = Nil)
        => res[p] = Answer(call[p], FALSE, ParsedOf(BytesOf(qAfter[p].ov.src)))

(* C2: with no override, the function given to loadOnce.Do runs at most   *)
(* once; a query that is past ensureLoaded finds that single run over,    *)
(* and every query answers from its result: the snapshot parsed from the  *)
(* embedded CSV, or not-found for the cached failure.                     *)
PastEnsure == { "ensureRet", "rLock", "read", "rUnlock", "queryRet", "done" }
InsideInit == { "initFunc", "initLock", "parse", "rows", "muUnlock", "setErr",
                "onceStore" }
C2_InitOnce ==
    ~ovStarted =>
      /\ initRuns <= 1
      /\ \A p \in Procs :
           (IsQuery(p) /\ pc[p] \in PastEnsure) =>
             /\ initRuns = 1 /\ onceDone
             /\ \A q \in Procs : pc[q] \notin InsideInit
             /\ loadErr = DefaultErr
      /\ \A p \in Procs :
           QDone(p) => res[p] = IF DefaultErr # Nil THEN NotFound
                                ELSE Answer(call[p], FALSE, ParsedOf(embeddedCSV))
C2_Witness ==
    /\ ~ovStarted /\ initRuns = 1
    /\ \E p, q \in Procs : /\ QDone(p) /\ res[p].found
                            /\ IsQuery(q) /\ pc[q] = "onceSleep"

(* C3: no LoadFromReader critical section overlaps an in-flight lazy      *)
(* initialization (from winning the once-guard to marking it done).       *)
LoadCritical == { "resetOnce", "resetErr", "parse", "rows", "muUnlock" }
InitInterval == { "doSlow", "initFunc", "initLock", "parse", "rows", "muUnlock",
                  "setErr", "onceStore" }
C3_OverrideExcludesInit ==
    ~ \E l, q \in Procs : /\ IsLoader(l) /\ pc[l] \in LoadCritical
                          /\ IsQuery(q) /\ pc[q] \in InitInterval

(* C4: a query holding the read lock never sees a half-built snapshot: no *)
(* parse is in progress, the entry list and the three indexes are those of*)
(* the last completed parse, and its answer is read from them.            *)
C4_NoHalfBuilt ==
    \A p \in Procs :
      (pc[p] \in { "read", "rUnlock" }) =>
        /\ \A q \in Procs : pc[q] # "rows"
        /\ IF lastParsed.some
           THEN ~mapsNil /\ Snapshot = ParsedOf(BytesOf(lastParsed.src))
           ELSE mapsNil /\ Snapshot = EmptySnapshot
        /\ pc[p] = "rUnlock" =>
             res[p] = IF call[p].op = "LookupDecimal"
                      THEN LookupDecimalIn(mapsNil, ParsedOf(BytesOf(lastParsed.src)), call[p].name)
                      ELSE LookupByNumberIn(mapsNil, ParsedOf(BytesOf(lastParsed.src)), call[p].num)
C4_Witness ==
    \E p, l \in Procs : /\ pc[p] = "read" /\ ~mapsNil
                        /\ IsLoader(l) /\ pc[l] = "loadLock"

(* C5, as claimed: a query made after LoadFromReader returned an error,   *)
(* with no later override, returns not-found.                             *)
C5_FailedOverrideEmpties ==
    \A p \in Procs :
      (AfterOverride(p) /\ qAfter[p].ov.err # Nil) => ~res[p].found

(* C5, amended: when loadFromReaderLocked fails in LoadFromReader, the    *)
(* entry list and the three indexes are exactly those the call found when *)
(* it took the write lock; and a query made after the call returned, with *)
(* no later override, is answered from the embedded dataset, loaded again *)
(* by a lazy initialization (not-found when that dataset does not load),  *)
(* or from the snapshot in place when the call returned.                  *)
AfterFailedOverride(p) == AfterOverride(p) /\ qAfter[p].ov.err # Nil
EmbeddedAnswer(p) == IF DefaultErr # Nil THEN NotFound
                     ELSE Answer(call[p], FALSE, ParsedOf(embeddedCSV))
LeftAnswer(p) == Answer(call[p], qAfter[p].ov.left.nil, qAfter[p].ov.left.snap)
C5_FailedOverrideKeeps ==
    /\ \A l \in Procs :
         (IsLoader(l) /\ pc[l] = "muUnlock" /\ ret[l] # Nil) =>
           /\ mapsNil = snapAtLock[l].nil
           /\ Snapshot = snapAtLock[l].snap
    /\ \A p \in Procs :
         AfterFailedOverride(p) =>
           (res[p] = EmbeddedAnswer(p) \/ res[p] = LeftAnswer(p))
C5_Witness ==
    \E p \in Procs : /\ AfterFailedOverride(p) /\ res[p].found
                     /\ res[p] = EmbeddedAnswer(p) /\ res[p] # LeftAnswer(p)
                     /\ initRuns = 1

(* C6: with an embedded CSV that is empty or does not parse, and no       *)
(* override, the initialization function runs at most once, its error     *)
(* stays cached, and every query returns not-found.                       *)
C6_FailureCached ==
    (~ovStarted /\ DefaultErr # Nil) =>
      /\ initRuns <= 1
      /\ mapsNil
      /\ \A p \in Procs :
           QDone(p) => /\ ~res[p].found
                       /\ onceDone /\ loadErr = DefaultErr /\ initRuns = 1
C6_Witness ==
    /\ ~ovStarted /\ DefaultErr # Nil /\ nCalls >= 2 /\ initRuns = 1
    /\ \E p \in Procs : QDone(p) /\ \A q \in Procs \ {p} : ~InFlight(q)

(* C7, as claimed: LookupByNumber(n) returns every Entry whose range      *)
(* holds n.                                                               *)
NumberDone(p) == QDone(p) /\ call[p].op = "LookupByNumber" /\ loadErr = Nil
C7_EveryOwnerReturned ==
    \A p \in Procs :
      NumberDone(p) =>
        \A i \in Owners(call[p].num) :
          res[p].found /\ res[p].idx = i /\ res[p].entry = entries[i]

(* C7, amended: for every Entry whose range holds n, LookupByNumber(n) is *)
(* found and returns an Entry whose range holds n; it is that same Entry  *)
(* when no later row's range holds n too.                                 *)
C7_OwnerReturnedUnlessOverlapped ==
    \A p \in Procs :
      NumberDone(p) =>
        \A i \in Owners(call[p].num) :
          /\ res[p].found /\ InRange(res[p].entry, call[p].num)
          /\ (\A j \in Owners(call[p].num) : j <= i) =>
               (res[p].idx = i /\ res[p].entry = entries[i])
C7_Witness ==
    \E p \in Procs : /\ NumberDone(p) /\ res[p].found /\ Len(entries) = 2
                     /\ res[p].entry.DecimalStart < call[p].num
                     /\ Cardinality(Owners(call[p].num)) = 1

(* C8, as claimed: LookupDecimal of an Entry's own keyword, or own long   *)
(* name, returns that Entry's rangeStart.                                 *)
DecimalDone(p) == QDone(p) /\ call[p].op = "LookupDecimal" /\ loadErr = Nil
KeywordIs(i, name) == entries[i].Keyword # <<>> /\ entries[i].Keyword = name
ProtocolIs(i, name) == entries[i].Protocol # <<>> /\ entries[i].Protocol = name
C8_OwnNameGivesOwnStart ==
    \A p \in Procs :
      DecimalDone(p) =>
        \A i \in DOMAIN entries :
          (KeywordIs(i, call[p].name) \/ ProtocolIs(i, call[p].name)) =>
            (res[p].found /\ res[p].num = entries[i].DecimalStart)

(* C8, amended: LookupDecimal of an Entry's own keyword returns the       *)
(* rangeStart of the first Entry in file order with that keyword, case    *)
(* ignored; of its own long name, the rangeStart of the first Entry whose *)
(* keyword is that name, case ignored, if there is one, and otherwise of  *)
(* the first Entry with the same normalized long name.                    *)
SameKeyword(name) ==
    { j \in DOMAIN entries :
        entries[j].Keyword # <<>> /\ ToUpper(entries[j].Keyword) = ToUpper(name) }
SameProtocol(name) ==
    { j \in DOMAIN entries :
        /\ entries[j].Protocol # <<>>
        /\ normalizeProtoName(entries[j].Protocol) = normalizeProtoName(name) }
C8_OwnNameGivesFirstStart ==
    \A p \in Procs :
      DecimalDone(p) =>
        \A i \in DOMAIN entries :
          (KeywordIs(i, call[p].name) \/ ProtocolIs(i, call[p].name)) =>
            /\ res[p].found
            /\ res[p].num =
                 IF SameKeyword(call[p].name) # {}
                 THEN entries[MinOf(SameKeyword(call[p].name))].DecimalStart
                 ELSE entries[MinOf(SameProtocol(call[p].name))].DecimalStart
C8_Witness ==
    \E p \in Procs :
      /\ DecimalDone(p) /\ res[p].found /\ Len(entries) = 2
      /\ KeywordIs(2, call[p].name)
      /\ SameKeyword(call[p].name) = { 1, 2 }
      /\ res[p].num = entries[1].DecimalStart
      /\ entries[1].DecimalStart # entries[2].DecimalStart

(* C9, as claimed: LookupByNumber(n) returns the first row in file order  *)
(* whose range holds n.                                                   *)
C9_FirstClaimWins ==
    \A p \in Procs :
      NumberDone(p) =>
        IF Owners(call[p].num) = {} THEN ~res[p].found
        ELSE res[p].found /\ res[p].idx = MinOf(Owners(call[p].num))

(* C9, amended: the by-number index is last-claim-wins per integer: n is  *)
(* bound to the last row in file order whose range holds n, and           *)
(* LookupByNumber(n) returns that row.                                    *)
C9_LastClaimWins ==
    /\ (muWriter = 0 /\ ~mapsNil) =>
         /\ DOMAIN byNumber =
              UNION { entries[i].DecimalStart..entries[i].DecimalEnd : i \in DOMAIN entries }
         /\ \A n \in DOMAIN byNumber : byNumber[n] = MaxOf(Owners(n))
    /\ \A p \in Procs :
         NumberDone(p) =>
           IF Owners(call[p].num) = {} THEN ~res[p].found
           ELSE /\ res[p].found /\ res[p].idx = MaxOf(Owners(call[p].num))
                /\ res[p].entry = entries[MaxOf(Owners(call[p].num))]
C9_Witness ==
    \E p \in Procs :
      /\ NumberDone(p) /\ res[p].found
      /\ Owners(call[p].num) = { 1, 2 } /\ res[p].idx = 2
      /\ entries[1] # entries[2]

(* C10, as claimed: LoadFromReader returns an error whenever the source   *)
(* is empty, the read fails, or there is no data row after the header.    *)
C10_NoDataRowsFails ==
    \A l \in Procs :
      (LDone(l) /\ (Len(BytesOf(lsrc[l])) = 0 \/ ReadAll(BytesOf(lsrc[l])).err
                                     \/ Len(RecordsOf(BytesOf(lsrc[l]))) <= 1))
        => ret[l] # Nil

(* C10, amended: loadFromReaderLocked fails, and LoadFromReader returns   *)
(* the error, exactly when the read fails or the source yields no record  *)
(* at all; a source that holds only the header row parses, to an empty    *)
(* snapshot.                                                              *)
C10_NoRecordsFails ==
    /\ \A l \in Procs :
         LDone(l) =>
           ret[l] = IF ReadAll(BytesOf(lsrc[l])).err THEN ErrReadCSV
                    ELSE IF RecordsOf(BytesOf(lsrc[l])) = <<>> THEN ErrCSVEmpty
                    ELSE Nil
    /\ \A p \in Procs :
         (pc[p] = "muUnlock" /\ ~ReadAll(BytesOf(lsrc[p])).err /\ Len(RecordsOf(BytesOf(lsrc[p]))) = 1)
           => (ret[p] = Nil /\ ~mapsNil /\ Snapshot = EmptySnapshot)
C10_Witness ==
    \E l \in Procs : LDone(l) /\ lsrc[l] = "headerOnly" /\ ret[l] = Nil

(* C11: a caller's repeated call of a query with the same argument, with  *)
(* no override call in flight or started from the start of its previous   *)
(* call on, returns what the previous call returned.                      *)
C11_RepeatedQuerySame ==
    \A p \in Procs :
      (QDone(p) /\ qAfter[p].clean /\ qAfter[p].prev.some)
        => res[p] = qAfter[p].prev.res

(* C12: LookupDecimal gives the keyword index priority: when the name,    *)
(* trimmed and uppercased, is a key of the by-keyword index, the result   *)
(* is the rangeStart of the Entry bound there, also when the name,        *)
(* normalized, is a key of the by-long-name index of another Entry; the   *)
(* long-name index decides only when the keyword index has no match.      *)
KeyOf(p) == ToUpper(TrimSpace(call[p].name))
LongKeyOf(p) == normalizeProtoName(TrimSpace(call[p].name))
C12_KeywordPriority ==
    \A p \in Procs :
      (DecimalDone(p) /\ TrimSpace(call[p].name) # <<>>) =>
        IF KeyOf(p) \in DOMAIN byKeyword
        THEN res[p].found /\ res[p].num = entries[byKeyword[KeyOf(p)]].DecimalStart
        ELSE IF LongKeyOf(p) \in DOMAIN byProtocolName
        THEN res[p].found /\ res[p].num = entries[byProtocolName[LongKeyOf(p)]].DecimalStart
        ELSE ~res[p].found
C12_Witness ==
    \E p \in Procs :
      /\ DecimalDone(p) /\ res[p].found
      /\ KeyOf(p) \in DOMAIN byKeyword /\ LongKeyOf(p) \in DOMAIN byProtocolName
      /\ byKeyword[KeyOf(p)] # byProtocolName[LongKeyOf(p)]
      /\ res[p].num = entries[byKeyword[KeyOf(p)]].DecimalStart
      /\ res[p].num # entries[byProtocolName[LongKeyOf(p)]].DecimalStart

(* C13, as claimed: two names that are equal after trimming, case folding *)
(* and collapsing whitespace runs to one space get the same (number,      *)
(* found) pair from LookupDecimal on the same snapshot.                   *)
Folded(s) == Join(Fields(ToLower(s)), <<" ">>)
SameButCase(a, b) == /\ ToUpper(TrimSpace(a)) = ToUpper(TrimSpace(b))
                     /\ ToLower(TrimSpace(a)) = ToLower(TrimSpace(b))
IsKeywordKey(a) == ToUpper(TrimSpace(a)) \in DOMAIN byKeyword
C13_NormalizedNamesSame ==
    \A p \in Procs :
      DecimalDone(p) =>
        \A b \in NameArgs :
          Folded(b) = Folded(call[p].name)
            => LookupDecimalIn(mapsNil, Snapshot, b) = res[p]

(* C13, amended: two names that are equal after trimming and case folding *)
(* get the same pair; two names that are equal after collapsing           *)
(* whitespace runs as well get the same pair when neither, trimmed and    *)
(* uppercased, is a key of the by-keyword index.                          *)
C13_CaseAndTrimSame ==
    \A p \in Procs :
      DecimalDone(p) =>
        \A b \in NameArgs :
          \/ SameButCase(b, call[p].name)
          \/ /\ Folded(b) = Folded(call[p].name)
             /\ ~IsKeywordKey(b) /\ ~IsKeywordKey(call[p].name)
          => LookupDecimalIn(mapsNil, Snapshot, b) = res[p]
C13_Witness ==
    \E p \in Procs : \E b \in NameArgs :
      /\ DecimalDone(p) /\ res[p].found
      /\ Folded(b) = Folded(call[p].name) /\ ~SameButCase(b, call[p].name)
      /\ ToLower(b) # ToLower(call[p].name)
      /\ ~IsKeywordKey(b) /\ ~IsKeywordKey(call[p].name)

(* C14, as claimed: LookupKeyword(n) is found exactly when ensureLoaded   *)
(* left no error and byNumber binds n to an Entry with a non-empty        *)
(* keyword, and returns it; the same for LookupProtocolName and the long  *)
(* name; and for a range row with an empty keyword, every n in the range  *)
(* gives LookupKeyword not-found and LookupProtocolName found.            *)
KeywordDone(p) == QDone(p) /\ call[p].op = "LookupKeyword"
ProtocolDone(p) == QDone(p) /\ call[p].op = "LookupProtocolName"
Bound(n) == ~mapsNil /\ n \in DOMAIN byNumber
FoundIffNonEmpty ==
    \A p \in Procs :
      /\ KeywordDone(p) =>
           IF /\ loadErr = Nil /\ Bound(call[p].num)
              /\ entries[byNumber[call[p].num]].Keyword # <<>>
           THEN res[p].found /\ res[p].str = entries[byNumber[call[p].num]].Keyword
           ELSE ~res[p].found
      /\ ProtocolDone(p) =>
           IF /\ loadErr = Nil /\ Bound(call[p].num)
              /\ entries[byNumber[call[p].num]].Protocol # <<>>
           THEN res[p].found /\ res[p].str = entries[byNumber[call[p].num]].Protocol
           ELSE ~res[p].found
RangeRowsNoKeyword ==
    { i \in DOMAIN entries :
        entries[i].DecimalStart < entries[i].DecimalEnd /\ entries[i].Keyword = <<>> }
C14_RangeRowNoKeyword ==
    /\ FoundIffNonEmpty
    /\ \A p \in Procs : \A i \in RangeRowsNoKeyword :
         InRange(entries[i], call[p].num) =>
           /\ KeywordDone(p) => ~res[p].found
           /\ ProtocolDone(p) => res[p].found

(* C14, amended: the same, and for a range row with an empty keyword and  *)
(* a non-empty long name, every n in the range that no later row's range  *)
(* holds gives LookupKeyword not-found and LookupProtocolName found, with *)
(* the long name of the row.                                              *)
C14_RangeRowNoKeywordLast ==
    /\ FoundIffNonEmpty
    /\ \A p \in Procs : \A i \in RangeRowsNoKeyword :
         (/\ InRange(entries[i], call[p].num)
          /\ entries[i].Protocol # <<>>
          /\ \A j \in Owners(call[p].num) : j <= i) =>
           /\ KeywordDone(p) => ~res[p].found
           /\ ProtocolDone(p) => res[p].found /\ res[p].str = entries[i].Protocol
C14_Witness ==
    \E p \in Procs : \E i \in RangeRowsNoKeyword :
      /\ ProtocolDone(p) /\ res[p].found /\ res[p].str = entries[i].Protocol
      /\ InRange(entries[i], call[p].num) /\ call[p].num # entries[i].DecimalStart
      /\ Len(entries) = 2 /\ \A j \in DOMAIN entries : entries[j].Protocol # <<>>

(* C15: a data row whose identifier is empty, does not start with a       *)
(* digit, is no integer and no range A-B of integers, or is a range with  *)
(* B < A, produces no Entry and no binding: when a parse is over, the     *)
(* entry list has one Entry per other row, and the list and the three     *)
(* indexes are those the source gives with these rows taken out.          *)
BadIdentifier(f) ==
    LET s == TrimSpace(f)
    IN  \/ s = <<>>
        \/ ~IsDigit(s[1])
        \/ ~Contains(s, "-") /\ ~Atoi(s).ok
        \/ /\ Contains(s, "-")
           /\ LET a == Atoi(TrimSpace(SplitN2(s, "-")[1]))
                  b == Atoi(TrimSpace(SplitN2(s, "-")[2]))
              IN  ~a.ok \/ ~b.ok \/ b.val < a.val
GoodRow(row) == ~BadIdentifier(row[1])
BadRow(row) == BadIdentifier(row[1])
RowsAfterHeader(src) == Tail(ReadAll(src).records)
ParseOver(p) == pc[p] = "muUnlock" /\ ret[p] = Nil
C15_BadRowsDropped ==
    \A p \in Procs :
      ParseOver(p) =>
        /\ Len(entries) = Len(SelectSeq(RowsAfterHeader(BytesOf(lsrc[p])), GoodRow))
        /\ Snapshot = IndexRows(EmptySnapshot,
                                <<Head(ReadAll(BytesOf(lsrc[p])).records)>>
                                  \o SelectSeq(RowsAfterHeader(BytesOf(lsrc[p])), GoodRow),
                                StartIdx)
C15_Witness ==
    \E p \in Procs :
      /\ ParseOver(p)
      /\ Len(RowsAfterHeader(BytesOf(lsrc[p]))) = 2 /\ Len(entries) = 1
      /\ BadRow(RowsAfterHeader(BytesOf(lsrc[p]))[1])
      /\ GoodRow(RowsAfterHeader(BytesOf(lsrc[p]))[2])
      /\ Contains(RowsAfterHeader(BytesOf(lsrc[p]))[1][1], "-")
      /\ DOMAIN byKeyword # {}

(* C16: in every state every Entry of the entry list has rangeStart <=    *)
(* rangeEnd; and when a parse is over, the Entry of a row whose           *)
(* identifier is a single value has rangeStart = rangeEnd = that value.   *)
GoodRowsOf(p) == SelectSeq(RowsAfterHeader(BytesOf(lsrc[p])), GoodRow)
IsSingleValue(f) == ~Contains(TrimSpace(f), "-")
C16_StartNotAfterEnd ==
    /\ \A i \in DOMAIN entries : entries[i].DecimalStart <= entries[i].DecimalEnd
    /\ \A p \in Procs :
         ParseOver(p) =>
           \A k \in DOMAIN GoodRowsOf(p) :
             IsSingleValue(GoodRowsOf(p)[k][1]) =>
               /\ k \in DOMAIN entries
               /\ entries[k].DecimalStart = DigitsValue(TrimSpace(GoodRowsOf(p)[k][1]), 0)
               /\ entries[k].DecimalEnd = entries[k].DecimalStart
C16_Witness ==
    \E p \in Procs :
      /\ ParseOver(p) /\ IsLoader(p) /\ Len(entries) = 2
      /\ entries[1].DecimalStart < entries[1].DecimalEnd
      /\ entries[2].DecimalStart = entries[2].DecimalEnd
      /\ Len(RowsAfterHeader(BytesOf(lsrc[p]))) = 3
      /\ initRuns > 0

(* C17: in every state in which mu is not write-locked, each byNumber     *)
(* binding n -> E has E.DecimalStart <= n <= E.DecimalEnd, each byKeyword *)
(* binding k -> E has k = ToUpper(E.Keyword), each byProtocolName binding *)
(* p -> E has p = the normalized E.Protocol, and every bound Entry is an  *)
(* element of the entry list, which is the one of the last parse.         *)
C17_IndexesConsistent ==
    muWriter = 0 =>
      /\ \A n \in DOMAIN byNumber :
           byNumber[n] \in DOMAIN entries /\ InRange(entries[byNumber[n]], n)
      /\ \A k \in DOMAIN byKeyword :
           /\ byKeyword[k] \in DOMAIN entries
           /\ k = ToUpper(entries[byKeyword[k]].Keyword)
      /\ \A n \in DOMAIN byProtocolName :
           /\ byProtocolName[n] \in DOMAIN entries
           /\ n = Folded(entries[byProtocolName[n]].Protocol)
      /\ IF lastParsed.some
         THEN ~mapsNil /\ entries = ParsedOf(BytesOf(lastParsed.src)).entries
         ELSE mapsNil /\ Snapshot = EmptySnapshot
C17_Witness ==
    /\ muWriter = 0 /\ Len(entries) = 2
    /\ Cardinality(DOMAIN byNumber) = 3
    /\ DOMAIN byKeyword # {} /\ Cardinality(DOMAIN byProtocolName) = 2
    /\ lastOv.some /\ lastOv.err # Nil

(* C18: no call is ever stuck: while some call is in progress, some call  *)
(* in progress can take its next step (the program has not ended with a   *)
(* fatal error, and no process waits on a lock nobody will release).      *)
Blocked(p) == \/ pc[p] \in { "initLock", "loadLock" } /\ ~CanLock
              \/ pc[p] = "rLock" /\ ~CanRLock
              \/ pc[p] = "onceSleep" /\ onceSema = 0
CanStep(p) == InFlight(p) /\ ~crashed /\ ~Blocked(p)
C18_NoCallStuck ==
    (\E p \in Procs : InFlight(p)) => \E p \in Procs : CanStep(p)

====
